---- MODULE Spec2Model ----
(***************************************************************************)
(* ROI Quick Check (src/app.py): the Streamlit script as a state machine.  *)
(*                                                                         *)
(* One script run is one action.  The form widgets hold the values the     *)
(* script reads; st.session_state["roi"] holds the snapshot of the last    *)
(* "Go".                                                                   *)
(*                                                                         *)
(* Numbers.  app.py computes in binary floating point; the model computes  *)
(* the same quantities exactly, as integers in fixed units:                *)
(*   hourly                      whole dollars per hour                    *)
(*   current_ops                 1/100 hour        (0.4 -> 40, 0.03 -> 3)  *)
(*   OPS_REDUCTION, PHISH_REDUCTION   1/100        (0.35 -> 35)            *)
(*   hours_saved                 1/10000 hour                              *)
(*   labor_savings_monthly       1/10000 dollar                            *)
(*   annual_incidents_baseline   1/IncidentDen incident (IncidentDen=4680) *)
(*   MIN_/MAX_ANNUAL_INCIDENTS   1/10 incident     (0.2 -> 2, 8.0 -> 80)   *)
(*   LOSS_PER_INCIDENT           100 dollars       (25000.0 -> 250)        *)
(*   annual_avoided_loss         1/IncidentDen dollar                      *)
(*   affordability_cap_monthly   [whole, frac]: whole dollars plus         *)
(*                               frac/CapDen dollar, 0 <= frac < CapDen    *)
(*   risk_score                  1/10              (1.0 -> 10, 0.5 -> 5)   *)
(***************************************************************************)
EXTENDS Integers, Sequences, FiniteSets, TLC

\* ---------------------------------------------------------------- bounds
MaxStaff == 12
MaxItStaff == 3
MaxHourly == 1
MaxDevices == 16
MaxGos == 2

\* ------------------------------------------------------ helpers (python)
Max(a, b) == IF a >= b THEN a ELSE b
Min(a, b) == IF a <= b THEN a ELSE b

RECURSIVE GCD(_, _)
GCD(a, b) == IF b = 0 THEN a ELSE GCD(b, a % b)
LCM(a, b) == (a \div GCD(a, b)) * b

\* round, were it to round up (math.ceil)
round_Up(n, d) == (n + d - 1) \div d

\* python round(n/d) for d > 0: nearest integer, ties to the even one
round(n, d) ==
    LET q == n \div d
        r == n % d
    IN  IF 2 * r < d THEN q
        ELSE IF 2 * r > d THEN q + 1
        ELSE IF q % 2 = 0 THEN q ELSE q + 1

\* clamp, were it to forget the upper limit
clamp_LowerOnly(x, lo, hi) == Max(lo, x)

\* def clamp(x, lo, hi): return max(lo, min(hi, x))
clamp(x, lo, hi) == Max(lo, Min(hi, x))

\* ------------------------------------------------------------- constants
Levels == {"Minimum", "Standard", "Advanced"}
Industries == {"Healthcare SMB", "Non-profit (Education)", "Other"}
HipaaOptions == {"Yes", "No"}
Plans == {"Essential", "Standard", "Advanced"}

\* OPS_REDUCTION, were the table keyed the other way round
OPS_REDUCTION_Reversed == [Minimum |-> 15, Standard |-> 25, Advanced |-> 35]

OPS_REDUCTION == [Minimum |-> 35, Standard |-> 25, Advanced |-> 15]
PHISH_REDUCTION == [Minimum |-> 30, Standard |-> 22, Advanced |-> 15]
INCIDENTS_DIVISOR == [Minimum |-> 120, Standard |-> 180, Advanced |-> 260]
LOSS_PER_INCIDENT == 250
MAX_ANNUAL_INCIDENTS == 80
MIN_ANNUAL_INCIDENTS == 2

\* the units of the exact arithmetic
IncidentDen ==
    LCM(LCM(LCM(INCIDENTS_DIVISOR["Minimum"], INCIDENTS_DIVISOR["Standard"]),
            INCIDENTS_DIVISOR["Advanced"]), 10)
LaborDen == 100 * 100
CapDen == LCM(LaborDen, 12 * IncidentDen)

\* n/d dollars as whole dollars plus frac/CapDen (d divides CapDen)
Fixed(n, d) == [whole |-> n \div d, frac |-> (n % d) * (CapDen \div d)]
FixedAdd(a, b) ==
    LET f == a.frac + b.frac
    IN  [whole |-> a.whole + b.whole + (f \div CapDen), frac |-> f % CapDen]
FixedLeq(a, b) == a.whole < b.whole \/ (a.whole = b.whole /\ a.frac <= b.frac)

\* the widgets' defaults (value=...) and lower limits (min_value=...)
DefaultIndustry == "Healthcare SMB"
DefaultStaff == 50
DefaultItStaff == 1
DefaultLevel == "Minimum"
DefaultHipaa == "Yes"
DefaultHourly == 65
DefaultDevices == 0
MinStaff == 1
MinItStaff == 0
MinHourly == 0
MinDevices == 0

None == [none |-> TRUE]

\* ------------------------------------------------- compute on submit
\* devices, were the entered value used as it is
devices_Raw(staff_, devices_opt_) == devices_opt_

\* devices = devices_opt if devices_opt > 0 else int(round(staff * 1.2))
devices(staff_, devices_opt_) ==
    IF devices_opt_ > 0 THEN devices_opt_ ELSE round(12 * staff_, 10)

\* current_ops, were the 12-hour floor left out
current_ops_NoFloor(staff_, it_staff_, devices_) ==
    40 * staff_ + 800 * it_staff_ + 3 * devices_

\* current_ops = max(0.4 * staff + 8.0 * it_staff + 0.03 * devices, 12.0)
current_ops(staff_, it_staff_, devices_) ==
    Max(40 * staff_ + 800 * it_staff_ + 3 * devices_, 1200)

\* hours_saved, were the phishing table looked up instead
hours_saved_Phish(current_ops_, level_) == current_ops_ * PHISH_REDUCTION[level_]

\* hours_saved = current_ops * ops_reduction_rate
hours_saved(current_ops_, level_) == current_ops_ * OPS_REDUCTION[level_]

\* labor_savings_monthly = hours_saved * max(hourly, 0.0)
labor_savings_monthly(hours_saved_, hourly_) == hours_saved_ * Max(hourly_, 0)

\* annual_incidents_baseline = clamp(staff / INCIDENTS_DIVISOR[level], MIN, MAX)
annual_incidents_baseline(staff_, level_) ==
    clamp(staff_ * (IncidentDen \div INCIDENTS_DIVISOR[level_]),
          MIN_ANNUAL_INCIDENTS * (IncidentDen \div 10),
          MAX_ANNUAL_INCIDENTS * (IncidentDen \div 10))

\* annual_avoided_loss = annual_incidents_baseline * LOSS_PER_INCIDENT * PHISH_REDUCTION[level]
annual_avoided_loss(baseline_, loss_, level_) ==
    baseline_ * loss_ * PHISH_REDUCTION[level_]

\* affordability_cap_monthly, were the avoided loss subtracted
affordability_cap_monthly_Minus(labor_, avoided_) ==
    FixedAdd(Fixed(labor_, LaborDen), Fixed(0 - avoided_, 12 * IncidentDen))

\* affordability_cap_monthly = labor_savings_monthly + (annual_avoided_loss / 12.0)
affordability_cap_monthly(labor_, avoided_) ==
    FixedAdd(Fixed(labor_, LaborDen), Fixed(avoided_, 12 * IncidentDen))

\* Plan recommendation heuristic: the five rules, in the order of the code,
\* each a sequence of <<weight, reason>> of length 0 or 1
\* (the reason "30-99 staff scale" has an en dash in app.py, a hyphen here)
RuleHipaa(hipaa_) ==
    IF hipaa_ = "Yes" THEN << <<10, "Requires HIPAA/BAA">> >> ELSE << >>
RuleStaff(staff_) ==
    IF staff_ >= 100 THEN << <<10, "100+ staff scale">> >>
    ELSE IF staff_ >= 30 THEN << <<5, "30-99 staff scale">> >>
    ELSE << >>
RuleItStaff(it_staff_) ==
    IF it_staff_ = 0 THEN << <<10, "No dedicated IT/Sec FTE">> >>
    ELSE IF it_staff_ <= 2 THEN << <<5, "Limited IT/Sec capacity">> >>
    ELSE << >>
RuleLevel(level_) ==
    IF level_ = "Minimum" THEN << <<10, "Current controls: Minimum">> >>
    ELSE IF level_ = "Standard" THEN << <<5, "Current controls: Standard">> >>
    ELSE << >>
\* staff > 0 and (devices / staff) > 1.5
RuleDensity(staff_, devices_) ==
    IF staff_ > 0 /\ 2 * devices_ > 3 * staff_
    THEN << <<5, "High device density">> >> ELSE << >>

Triggered(staff_, it_staff_, level_, hipaa_, devices_) ==
    RuleHipaa(hipaa_) \o RuleStaff(staff_) \o RuleItStaff(it_staff_)
        \o RuleLevel(level_) \o RuleDensity(staff_, devices_)

RECURSIVE SumWeights(_)
SumWeights(rs) == IF rs = << >> THEN 0 ELSE rs[1][1] + SumWeights(Tail(rs))

risk_score_of(triggered_) == SumWeights(triggered_)
reasons_of(triggered_) == [i \in 1..Len(triggered_) |-> triggered_[i][2]]

\* plan, were the thresholds inclusive
plan_Inclusive(risk_score_) ==
    IF risk_score_ <= 10 THEN "Essential"
    ELSE IF risk_score_ <= 20 THEN "Standard" ELSE "Advanced"

\* plan = "Essential" if risk_score < 1.0 else ("Standard" if risk_score < 2.0 else "Advanced")
plan(risk_score_) ==
    IF risk_score_ < 10 THEN "Essential"
    ELSE IF risk_score_ < 20 THEN "Standard" ELSE "Advanced"

\* the dict stored in st.session_state["roi"], for the loss per incident loss_
Evaluate(industry_, staff_, it_staff_, level_, hipaa_, hourly_, devices_opt_, loss_) ==
    LET dv == devices(staff_, devices_opt_)
        ops == current_ops(staff_, it_staff_, dv)
        hs == hours_saved(ops, level_)
        ls == labor_savings_monthly(hs, hourly_)
        bl == annual_incidents_baseline(staff_, level_)
        al == annual_avoided_loss(bl, loss_, level_)
        tr == Triggered(staff_, it_staff_, level_, hipaa_, dv)
    IN  [industry |-> industry_, staff |-> staff_, it_staff |-> it_staff_,
         level |-> level_, hipaa |-> hipaa_, hourly |-> hourly_, devices |-> dv,
         current_ops |-> ops, hours_saved |-> hs,
         labor_savings_monthly |-> ls,
         phish_reduction_pct |-> PHISH_REDUCTION[level_],
         annual_incidents_baseline |-> bl,
         annual_avoided_loss |-> al,
         affordability_cap_monthly |-> affordability_cap_monthly(ls, al),
         plan |-> plan(risk_score_of(tr)), reasons |-> reasons_of(tr)]

Snapshot(industry_, staff_, it_staff_, level_, hipaa_, hourly_, devices_opt_) ==
    Evaluate(industry_, staff_, it_staff_, level_, hipaa_, hourly_, devices_opt_,
             LOSS_PER_INCIDENT)

\* ----------------------------------------------------------------- state
VARIABLES
    industry, staff, it_staff, level, hipaa, hourly, devices_opt,  \* the form's widgets
    submitted,      \* st.form_submit_button's value in the latest script run
    roi,            \* st.session_state["roi"]
    risk_score,     \* the script's local of the latest compute (0 before any)
    shown,          \* the results columns were rendered by the latest script run
    gos             \* script runs with Go pressed so far (history, capped at MaxGos)

form == <<industry, staff, it_staff, level, hipaa, hourly, devices_opt>>
vars == <<industry, staff, it_staff, level, hipaa, hourly, devices_opt,
          submitted, roi, risk_score, shown, gos>>

\* the values the number_input widgets accept: min_value and above
StaffEdges ==
    {29, 30, DefaultStaff, 99, 100}
        \cup UNION {{INCIDENTS_DIVISOR[l] \div 5 - 1, INCIDENTS_DIVISOR[l] \div 5,
                     8 * INCIDENTS_DIVISOR[l], 8 * INCIDENTS_DIVISOR[l] + 1} : l \in Levels}
StaffValues == (MinStaff..MaxStaff) \cup StaffEdges
ItStaffValues == MinItStaff..MaxItStaff
HourlyValues == (MinHourly..MaxHourly) \cup {DefaultHourly}
DevicesValues == MinDevices..MaxDevices

\* the script has run once and nothing was submitted yet
Fresh ==
    /\ submitted = FALSE
    /\ roi = None
    /\ risk_score = 0
    /\ shown = FALSE
    /\ gos = 0

\* a fresh session whose form has been filled in
Init ==
    /\ industry = DefaultIndustry
    /\ staff \in StaffValues
    /\ it_staff \in ItStaffValues
    /\ level \in Levels
    /\ hipaa \in HipaaOptions
    /\ hourly \in HourlyValues
    /\ devices_opt \in DevicesValues
    /\ Fresh

\* --------------------------------------------------------------- actions
\* a script run with Go pressed: lines 169-218
Go ==
    /\ gos < MaxGos
    /\ submitted' = TRUE
    /\ roi' = Snapshot(industry, staff, it_staff, level, hipaa, hourly, devices_opt)
    /\ risk_score' = risk_score_of(Triggered(staff, it_staff, level, hipaa,
                                             devices(staff, devices_opt)))
    /\ shown' = (roi' # None)
    /\ gos' = gos + 1
    /\ UNCHANGED form

\* Rerun, were the snapshot recomputed on every run
Rerun_Recompute ==
    /\ submitted' = FALSE
    /\ roi' = Snapshot(industry, staff, it_staff, level, hipaa, hourly, devices_opt)
    /\ shown' = (roi' # None)
    /\ UNCHANGED <<form, risk_score, gos>>

\* a script run without Go: lines 169-171 and 217-218
Rerun ==
    /\ submitted' = FALSE
    /\ roi' = roi
    /\ shown' = (roi' # None)
    /\ UNCHANGED <<form, risk_score, gos>>

Next == Go \/ Rerun

Spec == Init /\ [][Next]_vars

\* ------------------------------------------------ the form being edited
\* Editing a widget of st.form changes its value and runs nothing.
EditIndustry == {DefaultIndustry, "Other"}
EditStaff == {MinStaff, DefaultStaff}
EditItStaff == {MinItStaff, DefaultItStaff}
EditLevel == {"Minimum", "Advanced"}
EditHourly == {MinHourly, DefaultHourly}
EditDevices == {DefaultDevices, MaxDevices}

unsubmitted == <<submitted, roi, risk_score, shown, gos>>

SetIndustry ==
    /\ \E v \in EditIndustry : industry' = v
    /\ UNCHANGED <<staff, it_staff, level, hipaa, hourly, devices_opt, unsubmitted>>
SetStaff ==
    /\ \E v \in EditStaff : staff' = v
    /\ UNCHANGED <<industry, it_staff, level, hipaa, hourly, devices_opt, unsubmitted>>
SetItStaff ==
    /\ \E v \in EditItStaff : it_staff' = v
    /\ UNCHANGED <<industry, staff, level, hipaa, hourly, devices_opt, unsubmitted>>
SetLevel ==
    /\ \E v \in EditLevel : level' = v
    /\ UNCHANGED <<industry, staff, it_staff, hipaa, hourly, devices_opt, unsubmitted>>
SetHipaa ==
    /\ \E v \in HipaaOptions : hipaa' = v
    /\ UNCHANGED <<industry, staff, it_staff, level, hourly, devices_opt, unsubmitted>>
SetHourly ==
    /\ \E v \in EditHourly : hourly' = v
    /\ UNCHANGED <<industry, staff, it_staff, level, hipaa, devices_opt, unsubmitted>>
SetDevices ==
    /\ \E v \in EditDevices : devices_opt' = v
    /\ UNCHANGED <<industry, staff, it_staff, level, hipaa, hourly, unsubmitted>>

\* a new session: the first script run, with every widget at its default
SessionInit ==
    /\ industry = DefaultIndustry
    /\ staff = DefaultStaff
    /\ it_staff = DefaultItStaff
    /\ level = DefaultLevel
    /\ hipaa = DefaultHipaa
    /\ hourly = DefaultHourly
    /\ devices_opt = DefaultDevices
    /\ Fresh

SessionNext ==
    \/ SetIndustry \/ SetStaff \/ SetItStaff \/ SetLevel
    \/ SetHipaa \/ SetHourly \/ SetDevices
    \/ Go \/ Rerun

SessionSpec == SessionInit /\ [][SessionNext]_vars

\* ================================================================ claims
\* In Spec the form is filled in once, so after a Go the widgets
\* still hold the values the snapshot was computed from.
Computed == roi # None
Reasons == IF Computed THEN {roi.reasons[i] : i \in 1..Len(roi.reasons)} ELSE {}
Rank == [Minimum |-> 0, Standard |-> 1, Advanced |-> 2]
\* losses per incident around LOSS_PER_INCIDENT, in increasing order
LossValues == <<1, LOSS_PER_INCIDENT - 1, LOSS_PER_INCIDENT + 1, 2 * LOSS_PER_INCIDENT>>

\* C1: after every Go on valid input, currentMonthlyOpsHours is at least 12.0;
\* it is 0.4*staff + 8.0*itStaff + 0.03*devices when that sum is at least 12,
\* and exactly 12.0 otherwise.
C1_OpsFloor ==
    Computed =>
        LET sum == 40 * roi.staff + 800 * roi.it_staff + 3 * roi.devices
        IN  /\ roi.current_ops >= 1200
            /\ sum >= 1200 => roi.current_ops = sum
            /\ sum < 1200 => roi.current_ops = 1200

\* C1 witness: scenario C, staff=1, itStaff=0, devices=1, floored to 12.0
C1_Witness ==
    /\ Computed
    /\ roi.staff = 1 /\ roi.it_staff = 0 /\ devices_opt = 1 /\ roi.devices = 1
    /\ 40 * roi.staff + 800 * roi.it_staff + 3 * roi.devices = 43
    /\ roi.current_ops = 1200

\* C2: annualIncidentBaseline lies in [0.2, 8.0] for every staff; it is
\* staff / divisor(level), divisor 120, 180, 260, when that quotient is in the
\* range, 0.2 when it is below and 8.0 when it is above.
C2_BaselineClamped ==
    Computed =>
        LET b == roi.annual_incidents_baseline
            d == CASE roi.level = "Minimum" -> 120
                   [] roi.level = "Standard" -> 180
                   [] roi.level = "Advanced" -> 260
        IN  /\ 10 * b >= 2 * IncidentDen
            /\ b <= 8 * IncidentDen
            /\ 5 * roi.staff < d => 5 * b = IncidentDen
            /\ roi.staff > 8 * d => b = 8 * IncidentDen
            /\ (5 * roi.staff >= d /\ roi.staff <= 8 * d) => b * d = roi.staff * IncidentDen

\* C2 witness: a staff beyond 8.0 * 260, held at the upper limit
C2_Witness ==
    /\ Computed
    /\ roi.level = "Advanced"
    /\ roi.staff > 8 * 260
    /\ roi.annual_incidents_baseline = 8 * IncidentDen

\* C3: riskScore is the sum of the weights of the triggered rules, the reasons
\* are one per triggered rule in the order HIPAA, staff size, IT capacity,
\* maturity, device density, and the plan is Essential below 1.0, Standard
\* from 1.0 and below 2.0, Advanced from 2.0.
C3_PlanRules ==
    Computed =>
        LET r1 == roi.hipaa = "Yes"
            r2a == roi.staff >= 100
            r2b == ~r2a /\ roi.staff >= 30
            r3a == roi.it_staff = 0
            r3b == ~r3a /\ roi.it_staff <= 2
            r4a == roi.level = "Minimum"
            r4b == roi.level = "Standard"
            r5 == 2 * roi.devices > 3 * roi.staff
            W(c, w) == IF c THEN w ELSE 0
            R(c, t) == IF c THEN <<t>> ELSE << >>
            score == W(r1, 10) + W(r2a, 10) + W(r2b, 5) + W(r3a, 10) + W(r3b, 5)
                        + W(r4a, 10) + W(r4b, 5) + W(r5, 5)
        IN  /\ risk_score = score
            /\ roi.reasons =
                   R(r1, "Requires HIPAA/BAA")
                   \o R(r2a, "100+ staff scale") \o R(r2b, "30-99 staff scale")
                   \o R(r3a, "No dedicated IT/Sec FTE") \o R(r3b, "Limited IT/Sec capacity")
                   \o R(r4a, "Current controls: Minimum") \o R(r4b, "Current controls: Standard")
                   \o R(r5, "High device density")
            /\ score < 10 => roi.plan = "Essential"
            /\ (score >= 10 /\ score < 20) => roi.plan = "Standard"
            /\ score >= 20 => roi.plan = "Advanced"

\* C3 witnesses between them: scenario E (score 1.5, Standard)
C3_Witness ==
    /\ Computed
    /\ roi.staff = 50 /\ roi.it_staff = 1 /\ roi.level = "Standard" /\ roi.hipaa = "No"
    /\ 2 * roi.devices <= 3 * roi.staff
    /\ risk_score = 15
    /\ roi.plan = "Standard"
    /\ roi.reasons = <<"30-99 staff scale", "Limited IT/Sec capacity",
                       "Current controls: Standard">>

\* C4 (failure on staff < 1, itStaff < 0, hourly < 0 or a negative device
\* count) has no case here: every number_input has a min_value, so the values
\* the script reads are always in range, and app.py has no failure path.
InputsInRange ==
    /\ staff >= MinStaff /\ it_staff >= MinItStaff
    /\ hourly >= MinHourly /\ devices_opt >= MinDevices

\* C5: the other inputs fixed, monthlyInvestmentCap does not decrease when
\* hourlyLaborCost grows, nor when lossPerIncident grows.
C5_CapMonotone ==
    Computed =>
        LET cap == roi.affordability_cap_monthly
            capH(h) == Snapshot(roi.industry, roi.staff, roi.it_staff, roi.level,
                                roi.hipaa, h, devices_opt).affordability_cap_monthly
            capL(l) == Evaluate(roi.industry, roi.staff, roi.it_staff, roi.level,
                                roi.hipaa, roi.hourly, devices_opt,
                                l).affordability_cap_monthly
        IN  /\ \A h \in HourlyValues : roi.hourly <= h => FixedLeq(cap, capH(h))
            /\ FixedLeq(capL(LossValues[1]), capL(LossValues[2]))
            /\ FixedLeq(capL(LossValues[2]), cap)
            /\ FixedLeq(cap, capL(LossValues[3]))
            /\ FixedLeq(capL(LossValues[3]), capL(LossValues[4]))

\* C5 witness: a snapshot whose cap is strictly below the cap at the default
\* hourly and strictly below the cap at twice the loss per incident
C5_Witness ==
    /\ Computed
    /\ roi.hourly < DefaultHourly
    /\ ~FixedLeq(Snapshot(roi.industry, roi.staff, roi.it_staff, roi.level, roi.hipaa,
                          DefaultHourly, devices_opt).affordability_cap_monthly,
                 roi.affordability_cap_monthly)
    /\ ~FixedLeq(Evaluate(roi.industry, roi.staff, roi.it_staff, roi.level, roi.hipaa,
                          roi.hourly, devices_opt,
                          2 * LOSS_PER_INCIDENT).affordability_cap_monthly,
                 roi.affordability_cap_monthly)

\* C6: the device count is resolved once, to the entered value when that is
\* above zero and to round(staff * 1.2) when it is zero, and this one value is
\* the one in the ops-hours formula, in the density rule and in the snapshot.
C6_DevicesResolvedOnce ==
    Computed =>
        LET est == CHOOSE d \in 0..(2 * roi.staff) : (10 * d - 12 * roi.staff) \in -5..5
            resolved == IF devices_opt > 0 THEN devices_opt ELSE est
        IN  /\ roi.devices = resolved
            /\ roi.current_ops = Max(40 * roi.staff + 800 * roi.it_staff + 3 * resolved, 1200)
            /\ ("High device density" \in Reasons) <=> (2 * resolved > 3 * roi.staff)

\* C6 witness: nothing entered for a staff of 50, 60 devices everywhere
C6_Witness ==
    /\ Computed
    /\ devices_opt = 0 /\ roi.staff = 50 /\ roi.it_staff = 1
    /\ roi.devices = 60
    /\ roi.current_ops = 2980
    /\ "High device density" \notin Reasons

\* C7: monthlyHoursSaved = currentMonthlyOpsHours * opsReductionRate(level);
\* monthlyLaborSavings = monthlyHoursSaved * hourlyLaborCost (0 at hourly 0);
\* annualAvoidedLoss = annualIncidentBaseline * phishReductionRate(level) * 25000;
\* monthlyInvestmentCap = monthlyLaborSavings + annualAvoidedLoss / 12.
C7_MoneyChain ==
    Computed =>
        LET ops_rate == CASE roi.level = "Minimum" -> 35
                          [] roi.level = "Standard" -> 25
                          [] roi.level = "Advanced" -> 15
            phish_rate == CASE roi.level = "Minimum" -> 30
                            [] roi.level = "Standard" -> 22
                            [] roi.level = "Advanced" -> 15
            ls == roi.labor_savings_monthly
            al == roi.annual_avoided_loss
            cap == roi.affordability_cap_monthly
            month == 12 * IncidentDen
        IN  /\ roi.hours_saved = roi.current_ops * ops_rate
            /\ ls = roi.hours_saved * roi.hourly
            /\ roi.hourly = 0 => ls = 0
            /\ al = roi.annual_incidents_baseline * phish_rate * 250
            /\ cap.frac \in 0..(CapDen - 1)
            /\ (cap.whole - (ls \div LaborDen) - (al \div month)) * CapDen + cap.frac
                   = (ls % LaborDen) * (CapDen \div LaborDen)
                         + (al % month) * (CapDen \div month)

\* C7 witness: scenario A, ops 29.8, hours saved 10.43, labor savings 677.95
C7_Witness ==
    /\ Computed
    /\ roi.staff = 50 /\ roi.it_staff = 1 /\ roi.level = "Minimum" /\ roi.hourly = 65
    /\ devices_opt = 0 /\ roi.devices = 60
    /\ roi.current_ops = 2980
    /\ roi.hours_saved = 104300
    /\ roi.labor_savings_monthly = 6779500

\* C8: both reduction rates are in (0, 1] at every level and do not increase
\* as maturity strengthens; so, the other inputs fixed, monthlyHoursSaved at a
\* weaker level is never below monthlyHoursSaved at a stronger one.
C8_RatesOrdered ==
    /\ \A l \in Levels : OPS_REDUCTION[l] \in 1..100 /\ PHISH_REDUCTION[l] \in 1..100
    /\ \A l1, l2 \in Levels :
          Rank[l1] <= Rank[l2] =>
              /\ OPS_REDUCTION[l1] >= OPS_REDUCTION[l2]
              /\ PHISH_REDUCTION[l1] >= PHISH_REDUCTION[l2]
    /\ Computed =>
          \A l \in Levels :
              LET other == Snapshot(roi.industry, roi.staff, roi.it_staff, l, roi.hipaa,
                                    roi.hourly, devices_opt).hours_saved
              IN  /\ Rank[roi.level] <= Rank[l] => roi.hours_saved >= other
                  /\ Rank[l] <= Rank[roi.level] => other >= roi.hours_saved

\* C8 witness: a snapshot at Minimum that saves strictly more hours than the
\* same inputs would at Advanced
C8_Witness ==
    /\ Computed
    /\ roi.level = "Minimum"
    /\ roi.hours_saved > Snapshot(roi.industry, roi.staff, roi.it_staff, "Advanced",
                                  roi.hipaa, roi.hourly, devices_opt).hours_saved

\* C9: the results are rendered only once Go has been pressed; the snapshot is
\* None until the first Go, is replaced on every run with Go by the inputs and
\* metrics of that run's form values, and is left alone by every run without
\* Go and by every edit of the form.
C9_State ==
    /\ gos = 0 => (roi = None /\ ~shown)
    /\ shown => (gos > 0 /\ roi # None)
C9_Step ==
    /\ gos' \in {gos, gos + 1}
    /\ gos' = gos + 1 =>
          /\ submitted' /\ shown'
          /\ roi' # None
          /\ roi'.industry = industry' /\ roi'.staff = staff'
          /\ roi'.it_staff = it_staff' /\ roi'.level = level'
          /\ roi'.hipaa = hipaa' /\ roi'.hourly = hourly'
          /\ roi' = Snapshot(industry', staff', it_staff', level', hipaa', hourly',
                             devices_opt')
          /\ form' = form
    /\ gos' = gos => roi' = roi
C9_SnapshotOnlyOnGo == [](C9_State) /\ [][C9_Step]_vars

\* C9 witness: after the second Go the form was edited and the script ran
\* again without Go; the results on show are still those of the last Go
C9_Witness ==
    /\ gos = 2 /\ ~submitted /\ shown /\ roi # None
    /\ roi.staff # staff /\ roi.level # level /\ roi.hourly # hourly
    /\ roi = Snapshot(roi.industry, roi.staff, roi.it_staff, roi.level, roi.hipaa,
                      roi.hourly, roi.devices)

\* C10: with the device count auto-estimated (entered as 0) the density rule
\* never triggers, for any staff; "High device density" is a reason only when
\* a device count above 1.5 * staff was entered.
C10_AutoEstimateNeverDense ==
    Computed =>
        /\ devices_opt = 0 =>
              /\ 2 * roi.devices <= 3 * roi.staff
              /\ "High device density" \notin Reasons
              /\ risk_score = SumWeights(Triggered(roi.staff, roi.it_staff, roi.level,
                                                  roi.hipaa, 0))
        /\ "High device density" \in Reasons =>
              (devices_opt > 0 /\ 2 * devices_opt > 3 * roi.staff)

\* C10 witness: staff 3, estimated at 4 devices, the densest estimate there is
C10_Witness ==
    /\ Computed
    /\ devices_opt = 0 /\ roi.staff = 3 /\ roi.devices = 4
    /\ "High device density" \notin Reasons

====
